---- MODULE Spec2Model ----
(***************************************************************************)
(* Model of currency_dashboard.py: the HTTP client with retries            *)
(* (requests_get_with_retry), the live table parser (parse_exchange_table, *)
(* scrape_live_rates) and the historical series assembler                  *)
(* (generate_date_list, fetch_historical_data).                            *)
(*                                                                         *)
(* Three specifications share the module:                                  *)
(*   SpecRetry  one call of requests_get_with_retry, attempt by attempt    *)
(*   SpecLive   one call of scrape_live_rates                              *)
(*   SpecHist   one call of fetch_historical_data, with the wall clock     *)
(***************************************************************************)
EXTENDS Integers, Sequences, FiniteSets

VARIABLES
    \* ---- requests_get_with_retry (SpecRetry) ----
    retries,            \* the retries argument
    total,              \* Retry.total: retries still allowed
    attempts,           \* HTTP attempts made so far
    history,            \* outcome of each attempt, in order
    rpc,                \* "idle" | "send" | "returned" | "raised"
    rerr,               \* exception raised: "none" | "RetryError" | "ConnectionError" | "HTTPError"
    \* ---- scrape_live_rates (SpecLive) ----
    document,           \* the HTML document the live endpoint serves
    lpc,                \* "idle" | "request" | "parse" | "except" | "done"
    lres,               \* result of the request made by scrape_live_rates
    live_df,            \* the records scrape_live_rates returns
    \* ---- fetch_historical_data (SpecHist) ----
    base,               \* base currency argument
    days,               \* days argument
    now,                \* wall clock: the current calendar day (ordinal)
    started,            \* the calendar day on which fetch_historical_data was called
    gi,                 \* generate_date_list: the comprehension's i
    dates,              \* generate_date_list result (built newest first, then reversed)
    target_currencies,  \* the symbols queried
    hpc,                \* "idle" | "gen" | "request" | "process" | "sleep" | "except" | "done" | "raised"
    idx,                \* enumerate(dates): index of the day being fetched (1-based)
    res,                \* result of the current requests_get_with_retry call
    all_data,           \* the records collected
    requested,          \* log: the requests issued, in order
    answers,            \* log: what the endpoint did for each request, in order
    slept               \* log: for each finished iteration, whether time.sleep ran

retryVars == <<retries, total, attempts, history, rpc, rerr>>
liveVars  == <<document, lpc, lres, live_df>>
histVars  == <<base, days, now, started, gi, dates, target_currencies, hpc, idx, res,
               all_data, requested, answers, slept>>
vars      == <<retryVars, liveVars, histVars>>

(***************************************************************************)
(* Bounds of the model                                                     *)
(***************************************************************************)
MaxRetries == 3         \* retries argument ranges over 0..MaxRetries
MaxDays    == 3         \* days argument ranges over 1..MaxDays
MaxTicks   == 1         \* midnights that may pass during one run
MaxRows    == 4         \* <tr> rows of the live table

(***************************************************************************)
(* HTTP client: requests_get_with_retry                                    *)
(***************************************************************************)
DefaultRetries == 3

status_forcelist == {429, 500, 502, 503, 504}

\* urllib3 Retry.RETRY_AFTER_STATUS_CODES, honoured because
\* respect_retry_after_header keeps its default
RetryAfterStatus == {413, 429, 503}

\* What one HTTP attempt can end in: a response with a status (and possibly a
\* Retry-After header), or no response at all (connection error, timeout).
Status(c)    == [kind |-> "status", code |-> c, retry_after |-> FALSE]
StatusRA(c)  == [kind |-> "status", code |-> c, retry_after |-> TRUE]
NoResponse   == [kind |-> "error", code |-> 0, retry_after |-> FALSE]

Outcomes == {Status(200), Status(404), Status(500), Status(503), StatusRA(413), NoResponse}

\* Faulty variant: every error status is retried
IsRetryAnyErrorStatus(t, o) == o.code >= 400

\* Retry.is_retry for a GET (GET is in allowed_methods)
IsRetry(t, o) ==
    \/ o.code \in status_forcelist
    \/ t # 0 /\ o.retry_after /\ o.code \in RetryAfterStatus

\* Retry.increment: every retried failure consumes one unit of total
Increment(t) == t - 1

\* Faulty variant: gives up one retry early
IsExhaustedOffByOne(t) == t <= 0

\* Retry.is_exhausted
IsExhausted(t) == t < 0

\* Response.raise_for_status
RaisesForStatus(code) == code >= 400 /\ code < 600

\* The state of one call: [total, attempts, pc, err]
StartCall(r) == [total |-> r, attempts |-> 0, pc |-> "send", err |-> "none"]

\* One HTTP attempt of session.get with outcome o, and what the call does next
Attempt(st, o) ==
    LET sent == [st EXCEPT !.attempts = @ + 1] IN
    IF o.kind = "error"
    THEN LET t == Increment(st.total) IN
         IF IsExhausted(t)
         THEN [sent EXCEPT !.total = t, !.pc = "raised", !.err = "ConnectionError"]
         ELSE [sent EXCEPT !.total = t]
    ELSE IF IsRetry(st.total, o)
    THEN LET t == Increment(st.total) IN
         IF IsExhausted(t)
         THEN [sent EXCEPT !.total = t, !.pc = "raised", !.err = "RetryError"]
         ELSE [sent EXCEPT !.total = t]
    ELSE IF RaisesForStatus(o.code)
    THEN [sent EXCEPT !.pc = "raised", !.err = "HTTPError"]
    ELSE [sent EXCEPT !.pc = "returned"]

\* The whole call against an endpoint that answers script[1], script[2], ...
RECURSIVE RunCall(_, _)
RunCall(st, script) ==
    IF st.pc # "send" \/ script = <<>> THEN st
    ELSE RunCall(Attempt(st, Head(script)), Tail(script))

requests_get_with_retry(script, r) == RunCall(StartCall(r), script)

\* What the caller sees of a finished call: the response returned, or the
\* exception raised
Outcome(call) == [pc |-> call.pc, err |-> call.err]

NoCall == [pc |-> "send", err |-> "none"]

RetryIdle ==
    /\ retries = 0 /\ total = 0 /\ attempts = 0
    /\ history = <<>> /\ rpc = "idle" /\ rerr = "none"

\* SpecRetry: a caller invokes requests_get_with_retry(url, retries=r)
InitRetryCall ==
    /\ retries \in 0..MaxRetries
    /\ total = retries
    /\ attempts = 0
    /\ history = <<>>
    /\ rpc = "send"
    /\ rerr = "none"

\* session.get makes one more attempt; the endpoint answers o
SendAttempt(o) ==
    /\ rpc = "send"
    /\ LET st == Attempt([total |-> total, attempts |-> attempts,
                          pc |-> rpc, err |-> rerr], o) IN
         /\ total' = st.total
         /\ attempts' = st.attempts
         /\ rpc' = st.pc
         /\ rerr' = st.err
    /\ history' = Append(history, o)
    /\ UNCHANGED <<retries, liveVars, histVars>>

AttemptResponse == \E o \in Outcomes : o.kind = "status" /\ SendAttempt(o)
AttemptNoResponse == SendAttempt(NoResponse)


\* Endpoint behaviours offered to the callers that use the default retries:
\* what the endpoint answers on attempts 1..DefaultRetries+1
ScriptOutcomes == {Status(200), Status(404), Status(503), NoResponse}
Scripts == [1..(DefaultRetries + 1) -> ScriptOutcomes]

(***************************************************************************)
(* Text: a string is a sequence of one-character strings                   *)
(***************************************************************************)
Digits == {"0", "1", "2", "3", "4", "5", "6", "7", "8", "9"}

DigitVal(c) ==
    CASE c = "0" -> 0 [] c = "1" -> 1 [] c = "2" -> 2 [] c = "3" -> 3 [] c = "4" -> 4
      [] c = "5" -> 5 [] c = "6" -> 6 [] c = "7" -> 7 [] c = "8" -> 8 [] c = "9" -> 9

RECURSIVE LStrip(_)
LStrip(s) == IF s # <<>> /\ Head(s) = " " THEN LStrip(Tail(s)) ELSE s

RECURSIVE RStrip(_)
RStrip(s) ==
    IF s # <<>> /\ s[Len(s)] = " " THEN RStrip(SubSeq(s, 1, Len(s) - 1)) ELSE s

\* str.strip()
Strip(s) == RStrip(LStrip(s))

\* str.replace(',', '')
RemoveCommas(s) == SelectSeq(s, LAMBDA c : c # ",")

AllDigits(s) == \A k \in 1..Len(s) : s[k] \in Digits

RECURSIVE IntOf(_)
IntOf(s) == IF s = <<>> THEN 0 ELSE 10 * IntOf(SubSeq(s, 1, Len(s) - 1)) + DigitVal(s[Len(s)])

RECURSIVE Pow10(_)
Pow10(n) == IF n = 0 THEN 1 ELSE 10 * Pow10(n - 1)

\* position of the first "." in s, or 0
RECURSIVE DotAt(_, _)
DotAt(s, k) == IF k > Len(s) THEN 0 ELSE IF s[k] = "." THEN k ELSE DotAt(s, k + 1)

\* A float value m / 10^e, with no trailing zero in the fraction
RECURSIVE Normal(_, _)
Normal(m, e) == IF e > 0 /\ m % 10 = 0 THEN Normal(m \div 10, e - 1) ELSE [m |-> m, e |-> e]

\* float(text) on decimal literals: [sign] digits [. [digits]] or [sign] . digits,
\* surrounding whitespace ignored; anything else is a ValueError
PyFloat(text) ==
    LET s    == Strip(text)
        neg  == s # <<>> /\ Head(s) = "-"
        u    == IF s # <<>> /\ Head(s) \in {"-", "+"} THEN Tail(s) ELSE s
        dot  == DotAt(u, 1)
        ip   == IF dot = 0 THEN u ELSE SubSeq(u, 1, dot - 1)
        fp   == IF dot = 0 THEN <<>> ELSE SubSeq(u, dot + 1, Len(u))
        ok   == AllDigits(ip) /\ AllDigits(fp) /\ Len(ip) + Len(fp) > 0
        mag  == Normal(IntOf(ip) * Pow10(Len(fp)) + IntOf(fp), Len(fp))
    IN IF ok THEN [ok |-> TRUE, val |-> [mag EXCEPT !.m = IF neg THEN 0 - @ ELSE @]]
       ELSE [ok |-> FALSE, val |-> [m |-> 0, e |-> 0]]

(***************************************************************************)
(* Live table parser: parse_exchange_table                                 *)
(***************************************************************************)
RatesTableClass == "tablesorter ratesTable"

\* Faulty variant: takes the first table whatever its class
FindTableAnyClass(soup) ==
    IF soup.class # "none"
    THEN [found |-> TRUE, rows |-> soup.rows]
    ELSE [found |-> FALSE, rows |-> <<>>]

\* soup.find("table", class_="tablesorter ratesTable"): the rows of the first
\* table of that class, or no table
FindTable(soup) ==
    IF soup.class = RatesTableClass
    THEN [found |-> TRUE, rows |-> soup.rows]
    ELSE [found |-> FALSE, rows |-> <<>>]

\* Faulty variant: thousands separators are left in
CleanRateKeepCommas(text) == Strip(text)

\* cols[1].text.strip().replace(',', '')
CleanRate(text) == RemoveCommas(Strip(text))

\* The loop body for one row: the records it appends (none or one)
ParseRow(cols) ==
    IF Len(cols) >= 2
    THEN LET currency == Strip(cols[1])
             rate     == PyFloat(CleanRate(cols[2]))
         IN IF rate.ok THEN <<[Currency |-> currency, Rate |-> rate.val]>> ELSE <<>>
    ELSE <<>>

RECURSIVE ParseRows(_)
ParseRows(rows) ==
    IF rows = <<>> THEN <<>> ELSE ParseRow(Head(rows)) \o ParseRows(Tail(rows))

\* [raised, data]: parse_exchange_table catches every exception itself
parse_exchange_table(soup) ==
    LET table == FindTable(soup) IN
    IF ~table.found
    THEN [raised |-> FALSE, data |-> <<>>]
    ELSE [raised |-> FALSE, data |-> ParseRows(SubSeq(table.rows, 2, Len(table.rows)))]


(***************************************************************************)
(* Documents served by the live endpoint.  Each sample row carries what    *)
(* the row is: wf (a well-formed currency/rate row) with the currency and  *)
(* the rate it states, or not wf (a malformed row).                        *)
(***************************************************************************)
NoVal == [m |-> 0, e |-> 0]

RowEUR   == [cols |-> << <<"E","U","R">>, <<"0",".","9">> >>,
             wf |-> TRUE, cur |-> <<"E","U","R">>, val |-> [m |-> 9, e |-> 1]]
RowJPY   == [cols |-> << <<" ","J","P","Y"," ">>, <<" ","1",",","2","3","4",".","5","0"," ">> >>,
             wf |-> TRUE, cur |-> <<"J","P","Y">>, val |-> [m |-> 12345, e |-> 1]]
RowUSD   == [cols |-> << <<"U","S","D">>, <<"1">>, <<"x">> >>,
             wf |-> TRUE, cur |-> <<"U","S","D">>, val |-> [m |-> 1, e |-> 0]]
RowNA    == [cols |-> << <<"G","B","P">>, <<"n","/","a">> >>,
             wf |-> FALSE, cur |-> <<>>, val |-> NoVal]
RowBlank == [cols |-> << <<"C","A","D">>, <<" ">> >>,
             wf |-> FALSE, cur |-> <<>>, val |-> NoVal]
RowHeader == [cols |-> <<>>, wf |-> FALSE, cur |-> <<>>, val |-> NoVal]

SampleRows == {RowEUR, RowJPY, RowUSD, RowNA, RowBlank, RowHeader}

RowSeqs == UNION {[1..n -> SampleRows] : n \in 0..MaxRows}

TableClasses == {RatesTableClass, "other", "none"}

\* The <td> cells of each <tr>
ColsOf(rowseq) == [k \in 1..Len(rowseq) |-> rowseq[k].cols]

(***************************************************************************)
(* scrape_live_rates                                                       *)
(***************************************************************************)
LiveIdle ==
    /\ document = [class |-> "none", rows |-> <<>>]
    /\ lpc = "idle"
    /\ lres = NoCall
    /\ live_df = <<>>

InitLiveCall ==
    /\ \E c \in TableClasses, rs \in RowSeqs :
         /\ (c = "none" => rs = <<>>)
         /\ document = [class |-> c, rows |-> rs]
    /\ lpc = "request"
    /\ lres = NoCall
    /\ live_df = <<>>

\* response = requests_get_with_retry(url)
ScrapeRequest ==
    /\ lpc = "request"
    /\ \E script \in Scripts :
         /\ lres' = Outcome(requests_get_with_retry(script, DefaultRetries))
         /\ lpc' = IF lres'.pc = "raised" THEN "except" ELSE "parse"
    /\ UNCHANGED <<document, live_df, retryVars, histVars>>

\* What scrape_live_rates does with the parser's result
ScrapeResult(parsed) ==
    IF parsed.raised THEN [pc |-> "except", df |-> <<>>]
    ELSE [pc |-> "done", df |-> parsed.data]

\* soup = BeautifulSoup(...); df = parse_exchange_table(soup); return df
ScrapeParse ==
    /\ lpc = "parse"
    /\ LET r == ScrapeResult(parse_exchange_table(
                    [class |-> document.class, rows |-> ColsOf(document.rows)])) IN
         /\ lpc' = r.pc
         /\ live_df' = r.df
    /\ UNCHANGED <<document, lres, retryVars, histVars>>

\* except Exception: ... return pd.DataFrame()
ScrapeExceptResult == [pc |-> "done", df |-> <<>>]

ScrapeExcept ==
    /\ lpc = "except"
    /\ lpc' = ScrapeExceptResult.pc
    /\ live_df' = ScrapeExceptResult.df
    /\ UNCHANGED <<document, lres, retryVars, histVars>>


(***************************************************************************)
(* Calendar: the wall clock counts calendar days from Epoch (ordinal 0);   *)
(* strftime("%Y-%m-%d") renders a day as its <<year, month, day>>.         *)
(***************************************************************************)
Epoch == <<2025, 2, 26>>

IsLeap(y) == (y % 4 = 0 /\ y % 100 # 0) \/ y % 400 = 0

DaysInMonth(y, m) ==
    IF m = 2 THEN (IF IsLeap(y) THEN 29 ELSE 28)
    ELSE IF m \in {4, 6, 9, 11} THEN 30 ELSE 31

NextDay(d) ==
    IF d[3] < DaysInMonth(d[1], d[2]) THEN <<d[1], d[2], d[3] + 1>>
    ELSE IF d[2] < 12 THEN <<d[1], d[2] + 1, 1>>
    ELSE <<d[1] + 1, 1, 1>>

RECURSIVE DateOf(_)
DateOf(n) == IF n = 0 THEN Epoch ELSE NextDay(DateOf(n - 1))

\* (moment - timedelta(days=i)).strftime("%Y-%m-%d")
DaysAgo(moment, i) == DateOf(moment - i)

\* [...][::-1]
RECURSIVE Reverse(_)
Reverse(s) == IF s = <<>> THEN <<>> ELSE Append(Reverse(Tail(s)), Head(s))

(***************************************************************************)
(* Historical series assembler: fetch_historical_data                      *)
(***************************************************************************)
TargetList == <<"EUR", "USD", "JPY", "GBP", "TRY", "CAD", "INR", "CNY">>

\* list.remove(x): drops the first occurrence
RECURSIVE ListRemove(_, _)
ListRemove(l, x) ==
    IF l = <<>> THEN <<>>
    ELSE IF Head(l) = x THEN Tail(l)
    ELSE <<Head(l)>> \o ListRemove(Tail(l), x)

Contains(l, x) == \E k \in 1..Len(l) : l[k] = x

\* Faulty variant: the base is left in the list
TargetCurrenciesKeepBase(b) == TargetList

\* target_currencies after lines 175-177
TargetCurrencies(b) == IF Contains(TargetList, b) THEN ListRemove(TargetList, b) ELSE TargetList

\* Base currencies offered by the sidebar that the model draws from
Bases == {"USD", "EUR"}

\* rates mappings the endpoint may send, as its JSON object's members in order
\* (keys distinct); rates are in hundredths
RatesMaps == {
    <<>>,
    << <<"EUR", 90>> >>,
    << <<"EUR", 91>> >>,
    << <<"USD", 100>>, <<"EUR", 90>> >> }

\* Response bodies: text that is not JSON, a JSON array, a JSON object without
\* "rates", with "rates": null, or with a rates mapping
Bodies ==
    {[valid |-> FALSE, type |-> "none", has_rates |-> FALSE, rates_type |-> "none", rates |-> <<>>],
     [valid |-> TRUE, type |-> "list", has_rates |-> FALSE, rates_type |-> "none", rates |-> <<>>],
     [valid |-> TRUE, type |-> "dict", has_rates |-> FALSE, rates_type |-> "none", rates |-> <<>>],
     [valid |-> TRUE, type |-> "dict", has_rates |-> TRUE, rates_type |-> "null", rates |-> <<>>]}
    \cup {[valid |-> TRUE, type |-> "dict", has_rates |-> TRUE, rates_type |-> "dict", rates |-> m]
            : m \in RatesMaps}

EmptyDict == [type |-> "dict", has_rates |-> FALSE, rates_type |-> "none", rates |-> <<>>]

\* safe_json_load: res.json(), or {} on JSONDecodeError
safe_json_load(body) ==
    IF body.valid
    THEN [type |-> body.type, has_rates |-> body.has_rates,
          rates_type |-> body.rates_type, rates |-> body.rates]
    ELSE EmptyDict

\* json_data.get("rates", {}) followed by rates.items(): [raised, items];
\* AttributeError when json_data or rates is not a dict
RatesItems(json_data) ==
    IF json_data.type # "dict" THEN [raised |-> TRUE, items |-> <<>>]
    ELSE IF ~json_data.has_rates THEN [raised |-> FALSE, items |-> <<>>]
    ELSE IF json_data.rates_type # "dict" THEN [raised |-> TRUE, items |-> <<>>]
    ELSE [raised |-> FALSE, items |-> json_data.rates]

\* Faulty variant: the append sits after the loop, so only the last item is kept
RecordsOfLastOnly(date, items) ==
    IF items = <<>> THEN <<>>
    ELSE <<[Date |-> date, Currency |-> items[Len(items)][1], Rate |-> items[Len(items)][2]]>>

\* the records appended for one day (lines 193-194)
RecordsOf(date, items) ==
    [k \in 1..Len(items) |-> [Date |-> date, Currency |-> items[k][1], Rate |-> items[k][2]]]

Keys(items) == {items[k][1] : k \in 1..Len(items)}

HistIdle ==
    /\ base = "USD" /\ days = 0 /\ now = 0 /\ started = 0 /\ gi = 0
    /\ dates = <<>> /\ target_currencies = <<>> /\ hpc = "idle" /\ idx = 0
    /\ res = NoCall /\ all_data = <<>>
    /\ requested = <<>> /\ answers = <<>> /\ slept = <<>>

\* fetch_historical_data(base, days) is called; the clock shows day MaxDays
InitHistCall ==
    /\ base \in Bases
    /\ days \in 1..MaxDays
    /\ now = MaxDays
    /\ started = now
    /\ gi = 0
    /\ dates = <<>>
    /\ target_currencies = <<>>
    /\ hpc = "gen"
    /\ idx = 0
    /\ res = NoCall
    /\ all_data = <<>>
    /\ requested = <<>>
    /\ answers = <<>>
    /\ slept = <<>>

\* Midnight passes while generate_date_list runs (the clock is not read later)
Tick ==
    /\ hpc = "gen"
    /\ now - started < MaxTicks
    /\ now' = now + 1
    /\ UNCHANGED <<base, days, started, gi, dates, target_currencies, hpc, idx, res,
                   all_data, requested, answers, slept, retryVars, liveVars>>

\* generate_date_list: the element for i, from a fresh datetime.now()
GenElement(moment, i) == DaysAgo(moment, i)

GenDate ==
    /\ hpc = "gen"
    /\ gi < days
    /\ dates' = Append(dates, GenElement(now, gi))
    /\ gi' = gi + 1
    /\ UNCHANGED <<base, days, now, started, target_currencies, hpc, idx, res,
                   all_data, requested, answers, slept, retryVars, liveVars>>

\* generate_date_list returns the reversed list; lines 175-180 follow
GenReturn ==
    /\ hpc = "gen"
    /\ gi = days
    /\ dates' = Reverse(dates)
    /\ target_currencies' = TargetCurrencies(base)
    /\ idx' = 1
    /\ hpc' = "request"
    /\ UNCHANGED <<base, days, now, started, gi, res, all_data, requested, answers,
                   slept, retryVars, liveVars>>

\* where the loop goes after finishing iteration idx
LoopNext == IF idx + 1 > Len(dates) THEN "done" ELSE "request"

\* res = requests_get_with_retry(url), url built from date, base and symbols
FetchRequest ==
    /\ hpc = "request"
    /\ idx <= Len(dates)
    /\ requested' = Append(requested,
           [date |-> dates[idx], base |-> base, symbols |-> target_currencies])
    /\ \E script \in Scripts :
         /\ res' = Outcome(requests_get_with_retry(script, DefaultRetries))
         /\ IF res'.pc = "raised"
            THEN /\ hpc' = "except"
                 /\ answers' = Append(answers,
                        [raised |-> TRUE, ok |-> FALSE, items |-> <<>>])
            ELSE /\ hpc' = "process"
                 /\ UNCHANGED answers
    /\ UNCHANGED <<base, days, now, started, gi, dates, target_currencies, idx,
                   all_data, slept, retryVars, liveVars>>

\* json_data = safe_json_load(res); rates = json_data.get("rates", {});
\* for curr, val in rates.items(): all_data.append(...)
FetchProcess ==
    /\ hpc = "process"
    /\ \E body \in Bodies :
         LET r == RatesItems(safe_json_load(body))
             mapping == body.valid /\ body.type = "dict" /\ body.has_rates
                        /\ body.rates_type = "dict"
         IN /\ answers' = Append(answers,
                   [raised |-> r.raised, ok |-> mapping, items |-> body.rates])
            /\ IF r.raised
               THEN /\ hpc' = "except"
                    /\ UNCHANGED all_data
               ELSE /\ hpc' = "sleep"
                    /\ all_data' = all_data \o RecordsOf(dates[idx], r.items)
    /\ UNCHANGED <<base, days, now, started, gi, dates, target_currencies, idx, res,
                   requested, slept, retryVars, liveVars>>

\* time.sleep(0.1), then the next iteration
FetchSleep ==
    /\ hpc = "sleep"
    /\ slept' = Append(slept, TRUE)
    /\ idx' = idx + 1
    /\ hpc' = LoopNext
    /\ UNCHANGED <<base, days, now, started, gi, dates, target_currencies, res,
                   all_data, requested, answers, retryVars, liveVars>>

\* Faulty variants: the exception leaves the function; the delay runs in any case
OnExceptionRaise == "raise"
OnExceptionSleep == "sleep"

\* what the except clause does after its warnings: "continue" goes straight to
\* the next iteration ("sleep" would fall through to the delay, "raise" would
\* let the exception leave the function)
OnException == "continue"

\* except Exception: ... continue
FetchExcept ==
    /\ hpc = "except"
    /\ CASE OnException = "continue" ->
               /\ slept' = Append(slept, FALSE)
               /\ idx' = idx + 1
               /\ hpc' = LoopNext
         [] OnException = "sleep" ->
               /\ hpc' = "sleep"
               /\ UNCHANGED <<slept, idx>>
         [] OTHER ->
               /\ hpc' = "raised"
               /\ UNCHANGED <<slept, idx>>
    /\ UNCHANGED <<base, days, now, started, gi, dates, target_currencies, res,
                   all_data, requested, answers, retryVars, liveVars>>

(***************************************************************************)
(* Specifications                                                          *)
(***************************************************************************)
InitRetry == InitRetryCall /\ LiveIdle /\ HistIdle
NextRetry == AttemptNoResponse \/ AttemptResponse
SpecRetry == InitRetry /\ [][NextRetry]_vars

InitLive == RetryIdle /\ InitLiveCall /\ HistIdle
NextLive == ScrapeRequest \/ ScrapeParse \/ ScrapeExcept
SpecLive == InitLive /\ [][NextLive]_vars

InitHist == RetryIdle /\ LiveIdle /\ InitHistCall
NextHist == Tick \/ GenDate \/ GenReturn \/ FetchRequest \/ FetchProcess
            \/ FetchSleep \/ FetchExcept
SpecHist == InitHist /\ [][NextHist]_vars

\* The three entry points together
Init == InitRetry \/ InitLive \/ InitHist
Next == NextRetry \/ NextLive \/ NextHist
Spec == Init /\ [][Next]_vars


(***************************************************************************)
(* Properties of requests_get_with_retry (SpecRetry)                       *)
(***************************************************************************)
AllAnswered(h, c) == \A k \in 1..Len(h) : h[k] = Status(c)

\* C1: the number of HTTP attempts never exceeds retries + 1; against an
\* endpoint that answers 503, 503 and then 200 the call (with at least two
\* retries, as with the default) is still sending after the two failures and
\* returns the response after exactly 3 attempts; with retries = 3 against an
\* endpoint that always answers 503 the call keeps sending until it fails with
\* a RequestException (RetryError) after exactly 4 attempts.
C1_AttemptsBounded ==
    /\ attempts <= retries + 1
    /\ attempts = Len(history)
    /\ (retries >= 2 /\ history = <<Status(503), Status(503)>>) => rpc = "send"
    /\ history = <<Status(503), Status(503), Status(200)>>
          => rpc = "returned" /\ attempts = 3
    /\ (retries = DefaultRetries /\ AllAnswered(history, 503))
          => /\ rpc # "returned"
             /\ rpc = "raised" <=> attempts = 4
             /\ rpc = "raised" => rerr = "RetryError"

C1_Witness ==
    /\ retries = DefaultRetries
    /\ history = <<Status(503), Status(503), Status(503), Status(503)>>
    /\ rpc = "raised"
    /\ attempts = 4

\* Attempt k was retried: another attempt followed it, or the call is about to
\* make one
Retried(k) == k < Len(history) \/ (k = Len(history) /\ rpc = "send")

\* C5 as stated: an attempt is retried only when its response status is in
\* {429, 500, 502, 503, 504}.
C5_RetryOnlyOnForcelist ==
    \A k \in 1..Len(history) :
        Retried(k) => history[k].kind = "status" /\ history[k].code \in status_forcelist

\* C5 amended: an attempt is retried only when its response status is in
\* {429, 500, 502, 503, 504}, or it got no response (connection error, timeout),
\* or the response has status 413 with a Retry-After header; an attempt
\* answered with any other error status (e.g. 404) ends the call at once with
\* an HTTPError, no further attempt being made.
C5_RetryOnlyOnTransient ==
    /\ \A k \in 1..Len(history) :
         Retried(k) => \/ history[k].code \in status_forcelist
                       \/ history[k].kind = "error"
                       \/ history[k].code = 413 /\ history[k].retry_after
    /\ \A k \in 1..Len(history) :
         (history[k] = Status(404))
            => k = Len(history) /\ rpc = "raised" /\ rerr = "HTTPError"

C5_Witness ==
    /\ history = <<NoResponse, Status(404)>>
    /\ rpc = "raised"
    /\ rerr = "HTTPError"
    /\ attempts = 2

(***************************************************************************)
(* Properties of parse_exchange_table and scrape_live_rates (SpecLive)     *)
(***************************************************************************)
Soup == [class |-> document.class, rows |-> ColsOf(document.rows)]

\* the data rows: every row after the first
DataRows == SubSeq(document.rows, 2, Len(document.rows))

WellFormed(rowseq) == SelectSeq(rowseq, LAMBDA r : r.wf)
Malformed(rowseq)  == SelectSeq(rowseq, LAMBDA r : ~r.wf)

\* one record per well-formed row, in row order
StatedRecords(rowseq) ==
    [k \in 1..Len(WellFormed(rowseq)) |->
        [Currency |-> WellFormed(rowseq)[k].cur, Rate |-> WellFormed(rowseq)[k].val]]

\* C4: for a rates table whose data rows are N well-formed and M malformed rows
\* in any order, parse_exchange_table returns exactly N records, one per
\* well-formed row, in row order, and does not raise; scrape_live_rates hands
\* that result on.
C4_ParseSkipsMalformed ==
    document.class = RatesTableClass =>
        /\ ~parse_exchange_table(Soup).raised
        /\ Len(parse_exchange_table(Soup).data) = Len(WellFormed(DataRows))
        /\ parse_exchange_table(Soup).data = StatedRecords(DataRows)
        /\ (lpc = "done" /\ lres.pc = "returned") => live_df = StatedRecords(DataRows)

C4_Witness ==
    /\ document.class = RatesTableClass
    /\ lpc = "done"
    /\ lres.pc = "returned"
    /\ Len(DataRows) = 3
    /\ DataRows[1].wf /\ ~DataRows[2].wf /\ DataRows[3].wf
    /\ Len(Malformed(DataRows)) = 1
    /\ Len(live_df) = 2

\* C8: without a table of the expected class parse_exchange_table returns an
\* empty result and does not raise; scrape_live_rates never raises, and returns
\* an empty result when the fetch failed or there was no such table.
C8_NoTableNoRaise ==
    /\ document.class # RatesTableClass
          => parse_exchange_table(Soup) = [raised |-> FALSE, data |-> <<>>]
    /\ lpc \in {"request", "parse", "except", "done"}
    /\ lres.pc = "raised" => lpc \in {"except", "done"}
    /\ (lpc = "done" /\ (lres.pc = "raised" \/ document.class # RatesTableClass))
          => live_df = <<>>

C8_Witness ==
    /\ lpc = "done"
    /\ lres.pc = "returned"
    /\ document.class = "other"
    /\ Len(WellFormed(DataRows)) > 0
    /\ live_df = <<>>

(***************************************************************************)
(* Properties of generate_date_list and fetch_historical_data (SpecHist)   *)
(***************************************************************************)
RECURSIVE SuccessSizes(_)
SuccessSizes(ans) ==
    IF ans = <<>> THEN 0
    ELSE (IF Head(ans).ok THEN Len(Head(ans).items) ELSE 0) + SuccessSizes(Tail(ans))

\* the records of the days that succeeded, day by day
RECURSIVE SuccessRecords(_, _)
SuccessRecords(ds, ans) ==
    IF ans = <<>> THEN <<>>
    ELSE (IF Head(ans).ok
          THEN [k \in 1..Len(Head(ans).items) |->
                  [Date |-> Head(ds), Currency |-> Head(ans).items[k][1],
                   Rate |-> Head(ans).items[k][2]]]
          ELSE <<>>) \o SuccessRecords(Tail(ds), Tail(ans))

InLoop == hpc \in {"request", "process", "sleep", "except"}

\* C2: the number of records returned equals the sum of the sizes of the rates
\* mappings of exactly the days that succeeded, failed days adding nothing; the
\* records are those mappings' entries under their day's date.
C2_LengthIsSumOfSuccesses ==
    (hpc = "done" \/ hpc = "request") =>
        /\ Len(all_data) = SuccessSizes(answers)
        /\ all_data = SuccessRecords(dates, answers)

C2_Witness ==
    /\ hpc = "done"
    /\ days = 3
    /\ answers = << [raised |-> FALSE, ok |-> TRUE, items |-> << <<"EUR", 90>> >>],
                    [raised |-> FALSE, ok |-> TRUE, items |-> << <<"EUR", 91>> >>],
                    [raised |-> TRUE, ok |-> FALSE, items |-> <<>>] >>
    /\ all_data = << [Date |-> dates[1], Currency |-> "EUR", Rate |-> 90],
                     [Date |-> dates[2], Currency |-> "EUR", Rate |-> 91] >>

\* C3 as stated: whatever the endpoint returns, no record's Currency is the base.
C3_NoBaseRecord ==
    \A k \in 1..Len(all_data) : all_data[k].Currency # base

AnswersOnlyRequested ==
    \A k \in 1..Len(answers) :
        Keys(answers[k].items) \subseteq {target_currencies[j] : j \in 1..Len(target_currencies)}

\* C3 amended: the base is never among the symbols requested, and a record
\* whose Currency is the base occurs only if the endpoint returned the base as a
\* key of a rates mapping; when every returned mapping holds requested symbols
\* only, no record's Currency is the base.
C3_BaseNeverRequested ==
    /\ InLoop \/ hpc = "done" => ~Contains(target_currencies, base)
    /\ \A k \in 1..Len(requested) : ~Contains(requested[k].symbols, base)
    /\ \A k \in 1..Len(all_data) :
         all_data[k].Currency = base =>
            \E j \in 1..Len(answers) : base \in Keys(answers[j].items)
    /\ AnswersOnlyRequested => C3_NoBaseRecord

C3_Witness ==
    /\ hpc = "done"
    /\ AnswersOnlyRequested
    /\ Len(all_data) >= 2
    /\ Len(requested) = days
    /\ C3_NoBaseRecord

\* calendar order of two rendered dates: a is earlier than b
DateLT(a, b) ==
    \/ a[1] < b[1]
    \/ a[1] = b[1] /\ a[2] < b[2]
    \/ a[1] = b[1] /\ a[2] = b[2] /\ a[3] < b[3]

C7_DateCurrencyUnique ==
    hpc = "done" =>
        \A i, j \in 1..Len(all_data) :
            (i # j) => ~(all_data[i].Date = all_data[j].Date
                          /\ all_data[i].Currency = all_data[j].Currency)

\* C9 as stated: the delay runs after every per-day request, failed or not.
C9_DelayAfterEveryRequest ==
    \A k \in 1..Len(slept) : slept[k]

\* C9 amended: the delay runs after a per-day request exactly when no exception
\* was raised in that iteration: after a response whose payload was handled
\* (records appended, or none for an undecodable body or a missing rates key),
\* and not when the request failed or the payload was not a mapping.
C9_DelayOnlyWithoutException ==
    /\ Len(slept) <= Len(answers)
    /\ \A k \in 1..Len(slept) : slept[k] <=> ~answers[k].raised
    /\ hpc = "sleep" => ~answers[idx].raised
    /\ hpc = "except" => answers[idx].raised
    /\ (hpc = "request" \/ hpc = "done") => Len(slept) = Len(answers)

C9_Witness ==
    /\ hpc = "done"
    /\ days = 3
    /\ slept = <<TRUE, FALSE, TRUE>>
    /\ answers[1].ok
    /\ answers[2].raised
    /\ ~answers[3].ok /\ ~answers[3].raised

\* C10 as stated: generate_date_list returns exactly `days` dates, consecutive
\* calendar days in ascending order, the last one being today's date (the date
\* shown by the clock at some moment of the call).
C10_ConsecutiveDates ==
    (InLoop \/ hpc = "done") =>
        /\ Len(dates) = days
        /\ \A k \in 1..(Len(dates) - 1) : dates[k + 1] = NextDay(dates[k])
        /\ \E t \in started..now : dates[Len(dates)] = DateOf(t)

====
